---- MODULE Spec2Model ----
(***************************************************************************)
(* PromptLab backend: the in-memory store (app/storage.py), the request    *)
(* handlers (app/api.py), the records (app/models.py) and the query        *)
(* helpers (app/utils.py).                                                 *)
(*                                                                         *)
(* Spec, SpecVersions, SpecClock, SpecFields, SpecClear                    *)
(*           every request handler runs as one atomic step; they differ    *)
(*           in the request bodies they draw, in whether the clock         *)
(*           advances and in whether the store is cleared.                 *)
(* SpecSort, SpecFilter, SpecSearch, SpecList                              *)
(*           one helper of utils.py, or GET /prompts, applied to the       *)
(*           prompts of a store with any content.                          *)
(* SpecConc, SpecCascade, SpecUpdate                                       *)
(*           handlers run on worker threads and interleave between their   *)
(*           calls into the store (the handlers are plain `def` routes and *)
(*           the store takes no lock): version routes, delete_collection   *)
(*           against create_prompt, PUT and PATCH against delete_prompt.   *)
(* SpecPatch atomic PATCH requests while one delete_collection runs in its *)
(*           storage steps.                                                *)
(* SpecDangling                                                            *)
(*           atomic GET /prompts while one delete_collection runs in its   *)
(*           storage steps.                                                *)
(* SpecReads the six read routes next to create and delete requests.       *)
(* SpecFair  SpecCascade with delete_prompt, the walk of the prompts dict  *)
(*           and each delete of the sweep taken step by step, under weak   *)
(*           fairness of every started request.                            *)
(***************************************************************************)
EXTENDS Integers, Sequences, FiniteSets, TLC

(* ------------------------------ bounds -------------------------------- *)
\* Ids handed out by generate_id over a run, and the last clock reading.
MaxIds == 4
MaxClock == 1

(* --------------------------- Optional[...] ----------------------------- *)
\* Python's None and a present value; "" is a present, falsy string.
None == <<>>
Some(x) == <<x>>
Truthy(o) == o /= None /\ o /= Some("")

(* ------------------------- Python dict (ordered) ----------------------- *)
\* A dict is the sequence of its items in insertion order.
Has(d, key) == \E i \in DOMAIN d : d[i].k = key
Get(d, key) ==
    IF Has(d, key) THEN Some(d[CHOOSE i \in DOMAIN d : d[i].k = key].v) ELSE None
Put(d, key, val) ==
    IF Has(d, key)
    THEN [i \in DOMAIN d |-> IF d[i].k = key THEN [k |-> key, v |-> val] ELSE d[i]]
    ELSE Append(d, [k |-> key, v |-> val])
Del(d, key) == SelectSeq(d, LAMBDA e : e.k /= key)
Values(d) == [i \in DOMAIN d |-> d[i].v]
Range(s) == {s[i] : i \in DOMAIN s}

(* --------------------------- Python builtins --------------------------- *)
\* sorted(xs, key=..., reverse=...): a stable sort; key maps each element to
\* its sort key.  With reverse=True the order of the keys is inverted while
\* elements with equal keys still keep the order they had in xs.
RECURSIVE sorted(_, _, _)
sorted(xs, key, reverse) ==
    IF xs = <<>> THEN <<>>
    ELSE LET n == Len(xs)
             x == xs[n]
             front == sorted(SubSeq(xs, 1, n - 1), key, reverse)
             ahead == {i \in DOMAIN front :
                          IF reverse THEN key[front[i]] >= key[x]
                                     ELSE key[front[i]] <= key[x]}
             k == Cardinality(ahead)
         IN SubSeq(front, 1, k) \o <<x>> \o SubSeq(front, k + 1, Len(front))

(* ------------------------------ models.py ------------------------------ *)
\* generate_id: uuid4 strings, modelled as the n-th fresh id of each kind.
generate_id(kind, n) == kind \o ToString(n)

Prompt(id, title, content, description, collection_id, created_at, updated_at) ==
    [id |-> id, title |-> title, content |-> content, description |-> description,
     collection_id |-> collection_id, created_at |-> created_at,
     updated_at |-> updated_at]

\* created_at of Collection and PromptVersion is written once and never read
\* by any handler; it is left out of the records.
Collection(id, name, description) ==
    [id |-> id, name |-> name, description |-> description]

PromptVersion(id, prompt_id, title, content, description, version_number) ==
    [id |-> id, prompt_id |-> prompt_id, title |-> title, content |-> content,
     description |-> description, version_number |-> version_number]

(* ------------------------------ storage.py ----------------------------- *)
Storage_create_prompt(ps, prompt) == Put(ps, prompt.id, prompt)
Storage_get_prompt(ps, prompt_id) == Get(ps, prompt_id)
Storage_get_all_prompts(ps) == Values(ps)
Storage_update_prompt(ps, prompt_id, prompt) ==
    IF ~Has(ps, prompt_id) THEN ps ELSE Put(ps, prompt_id, prompt)
\* Mutant: reports the removal without removing.
Storage_delete_prompt_Keeps(ps, prompt_id) == ps

Storage_delete_prompt(ps, prompt_id) ==
    IF Has(ps, prompt_id) THEN Del(ps, prompt_id) ELSE ps
\* The bool delete_prompt returns: True when the prompt was there.
Storage_delete_prompt_Returned(ps, prompt_id) == Has(ps, prompt_id)

\* create_collection that rebinds the table to the new record alone.
Storage_create_collection_Alone(cs, collection) ==
    <<[k |-> collection.id, v |-> collection]>>
Storage_create_collection(cs, collection) == Put(cs, collection.id, collection)
Storage_get_collection(cs, collection_id) == Get(cs, collection_id)
Storage_get_all_collections(cs) == Values(cs)
\* delete_collection that drops the oldest collection, whatever the id.
Storage_delete_collection_Oldest(cs, collection_id) ==
    IF Has(cs, collection_id) THEN Tail(cs) ELSE cs
Storage_delete_collection(cs, collection_id) ==
    IF Has(cs, collection_id) THEN Del(cs, collection_id) ELSE cs
\* The bool delete_collection returns: True when the collection was there.
Storage_delete_collection_Returned(cs, collection_id) == Has(cs, collection_id)
\* Mutant: every prompt that is in some collection.
Storage_get_prompts_by_collection_Any(ps, collection_id) ==
    SelectSeq(Values(ps), LAMBDA p : p.collection_id /= None)

Storage_get_prompts_by_collection(ps, collection_id) ==
    SelectSeq(Values(ps), LAMBDA p : p.collection_id = Some(collection_id))

Storage_create_version(vs, version) == Put(vs, version.id, version)
Storage_get_version(vs, version_id) == Get(vs, version_id)
\* get_versions_by_prompt without its prompt_id test.
Storage_get_versions_by_prompt_All(vs, prompt_id) == Values(vs)
Storage_get_versions_by_prompt(vs, prompt_id) ==
    SelectSeq(Values(vs), LAMBDA v : v.prompt_id = prompt_id)

MaxOf(S, default) ==
    IF S = {} THEN default
    ELSE CHOOSE y \in S : \A z \in S : z <= y

\* Mutant: the highest number over the versions of all prompts.
Storage_get_latest_version_number_Global(vs, prompt_id) ==
    MaxOf({v.version_number : v \in Range(Values(vs))}, 0)

Storage_get_latest_version_number(vs, prompt_id) ==
    MaxOf({v.version_number : v \in Range(Storage_get_versions_by_prompt(vs, prompt_id))}, 0)

(* ------------------------------- utils.py ------------------------------ *)
\* Where the helpers compare text, a string is the sequence of its characters.
Upper == <<"A", "B", "C", "D", "E", "F", "G", "H", "I", "J", "K", "L", "M",
           "N", "O", "P", "Q", "R", "S", "T", "U", "V", "W", "X", "Y", "Z">>
Lower == <<"a", "b", "c", "d", "e", "f", "g", "h", "i", "j", "k", "l", "m",
           "n", "o", "p", "q", "r", "s", "t", "u", "v", "w", "x", "y", "z">>
\* str.lower() that changes nothing.
lower_Unchanged(s) == s
\* str.lower(): every capital letter becomes its small letter.
lower(s) ==
    [i \in DOMAIN s |->
        IF \E n \in DOMAIN Upper : Upper[n] = s[i]
        THEN Lower[CHOOSE n \in DOMAIN Upper : Upper[n] = s[i]]
        ELSE s[i]]
\* `needle in hay` on strings: hay has a slice equal to needle.
contains(needle, hay) ==
    \E start \in 0..(Len(hay) - Len(needle)) :
        SubSeq(hay, start + 1, start + Len(needle)) = needle

Reverse(xs) == [i \in DOMAIN xs |-> xs[Len(xs) + 1 - i]]
\* The ascending sort, reversed when descending is asked for.
sort_prompts_by_date_Flipped(ps, descending) ==
    LET ascending == sorted(ps, [p \in Range(ps) |-> p.created_at], FALSE)
    IN IF descending THEN Reverse(ascending) ELSE ascending
sort_prompts_by_date(ps, descending) ==
    sorted(ps, [p \in Range(ps) |-> p.created_at], descending)

\* The filter with prompts outside every collection let through.
filter_prompts_by_collection_OrNone(ps, collection_id) ==
    SelectSeq(ps, LAMBDA p : p.collection_id \in {None, Some(collection_id)})
filter_prompts_by_collection(ps, collection_id) ==
    SelectSeq(ps, LAMBDA p : p.collection_id = Some(collection_id))

\* `p.description and ...`: None and "" are falsy and end the test.
search_prompts(ps, query) ==
    LET query_lower == lower(query)
    IN SelectSeq(ps, LAMBDA p :
           \/ contains(query_lower, lower(p.title))
           \/ /\ p.description /= None
              /\ p.description /= Some(<<>>)
              /\ contains(query_lower, lower(p.description[1])))

(* -------------------------------- state -------------------------------- *)
VARIABLES
    prompts,        \* storage._prompts
    collections,    \* storage._collections
    versions,       \* storage._prompt_versions
    nPrompts,       \* ids generated so far for Prompt records
    nCollections,   \* ids generated so far for Collection records
    nVersions,      \* ids generated so far for PromptVersion records
    clock,          \* the last reading of get_current_time()
    last,           \* the last request served atomically and its response
    threads         \* the requests in progress on the worker threads

store == <<prompts, collections, versions>>
counters == <<nPrompts, nCollections, nVersions>>
vars == <<prompts, collections, versions, nPrompts, nCollections, nVersions,
          clock, last, threads>>

(* ------------------------------- requests ------------------------------ *)
\* Request bodies and path parameters are drawn from these sets.
Titles == {"Alpha", "Beta"}
ContentOf(title) == title \o " body text"
Descriptions == {None, Some("A description")}
VersionBodies ==
    {[title |-> "V1", content |-> "C1", description |-> None],
     [title |-> "V2", content |-> "C2", description |-> Some("second")]}
CollectionBodies == {[name |-> "Work", description |-> None]}

Fresh == nPrompts + nCollections + nVersions < MaxIds

PromptIdArgs == {generate_id("p", i) : i \in 1..nPrompts} \cup {"nonexistent"}
CollectionIdArgs == {generate_id("c", i) : i \in 1..nCollections} \cup {"nonexistent"}
VersionIdArgs == {generate_id("v", i) : i \in 1..nVersions} \cup {"nonexistent"}
CollectionRefs == {None, Some("")} \cup {Some(c) : c \in CollectionIdArgs}

\* PromptCreate / PromptUpdate: title and content are required, description
\* and collection_id default to None; fields_set is what the request gave
\* (pydantic's model_fields_set), read by model_dump(exclude_unset=True).
Optionals == {"description", "collection_id"}
PromptData(T, D, C) ==
    {d \in [title : T, content : {ContentOf(t) : t \in T}, description : D,
            collection_id : C, fields_set : SUBSET Optionals] :
        /\ d.content = ContentOf(d.title)
        /\ "description" \notin d.fields_set => d.description = None
        /\ "collection_id" \notin d.fields_set => d.collection_id = None}
\* Bodies in which a field is omitted exactly when it is None: create and PUT
\* never read fields_set.
Plain(T, D, C) ==
    {d \in PromptData(T, D, C) :
        /\ "description" \in d.fields_set <=> d.description /= None
        /\ "collection_id" \in d.fields_set <=> d.collection_id /= None}

Resp(op, status, pid, xid, out) ==
    [op |-> op, status |-> status, pid |-> pid, xid |-> xid, out |-> out,
     items |-> <<>>, total |-> 0]
\* The response of a list route: the records returned and the total reported.
Listing(op, pid, items, total) ==
    [Resp(op, 200, pid, "-", None) EXCEPT !.items = items, !.total = total]
NoArg == "-"

(* -------------------------------- api.py ------------------------------- *)
\* _validate_collection_exists: TRUE when it raises HTTPException(400).
\* A validation that lets every reference pass.
validate_raises_Never(cs, collection_id) == FALSE
validate_raises(cs, collection_id) ==
    Truthy(collection_id) /\ Storage_get_collection(cs, collection_id[1]) = None

\* Prompt(**prompt_data.model_dump()): id, created_at and updated_at come from
\* the default factories (api.py 131, models.py 76-78).
NewPrompt(id, prompt_data, now) ==
    Prompt(id, prompt_data.title, prompt_data.content, prompt_data.description,
           prompt_data.collection_id, now, now)

create_prompt(prompt_data) ==
    IF validate_raises(collections, prompt_data.collection_id)
    THEN /\ last' = Resp("create_prompt", 400, NoArg, NoArg, None)
         /\ UNCHANGED <<store, counters, clock, threads>>
    ELSE /\ Fresh
         /\ LET prompt == NewPrompt(generate_id("p", nPrompts + 1), prompt_data, clock)
            IN /\ prompts' = Storage_create_prompt(prompts, prompt)
               /\ last' = Resp("create_prompt", 201, prompt.id, NoArg, Some(prompt.id))
         /\ nPrompts' = nPrompts + 1
         /\ UNCHANGED <<collections, versions, nCollections, nVersions, clock, threads>>

\* list_prompts that filters whenever a collection_id is given, also "".
list_prompts_FiltersEmpty(collection_id, search) ==
    LET all == Storage_get_all_prompts(prompts)
        filtered == IF collection_id /= None
                    THEN filter_prompts_by_collection(all, collection_id[1]) ELSE all
        searched == IF search \notin {None, Some(<<>>)}
                    THEN search_prompts(filtered, search[1]) ELSE filtered
        found == sort_prompts_by_date(searched, TRUE)
    IN /\ last' = [Listing("list_prompts", NoArg, found, Len(found))
                      EXCEPT !.out = Some(<<collection_id, search>>)]
       /\ UNCHANGED <<store, counters, clock, threads>>

\* A listing that answers 404 when the collection named by the filter is not
\* stored.
list_prompts_ChecksCollection(collection_id, search) ==
    LET all == Storage_get_all_prompts(prompts)
        filtered == IF Truthy(collection_id)
                    THEN filter_prompts_by_collection(all, collection_id[1]) ELSE all
        searched == IF search \notin {None, Some(<<>>)}
                    THEN search_prompts(filtered, search[1]) ELSE filtered
        found == sort_prompts_by_date(searched, TRUE)
    IN /\ last' = IF Truthy(collection_id) /\ ~Has(collections, collection_id[1])
                  THEN [Resp("list_prompts", 404, NoArg, NoArg,
                             Some(<<collection_id, search>>))
                           EXCEPT !.items = <<>>]
                  ELSE [Listing("list_prompts", NoArg, found, Len(found))
                           EXCEPT !.out = Some(<<collection_id, search>>)]
       /\ UNCHANGED <<store, counters, clock, threads>>

\* `if collection_id:` and `if search:` skip None and the empty string; last
\* keeps the two query parameters and the PromptList returned.
list_prompts(collection_id, search) ==
    LET all == Storage_get_all_prompts(prompts)
        filtered == IF Truthy(collection_id)
                    THEN filter_prompts_by_collection(all, collection_id[1]) ELSE all
        searched == IF search \notin {None, Some(<<>>)}
                    THEN search_prompts(filtered, search[1]) ELSE filtered
        found == sort_prompts_by_date(searched, TRUE)
    IN /\ last' = [Listing("list_prompts", NoArg, found, Len(found))
                      EXCEPT !.out = Some(<<collection_id, search>>)]
       /\ UNCHANGED <<store, counters, clock, threads>>

\* A GET /prompts/{id} that takes the record out of the table it reads.
get_prompt_Pops(prompt_id) ==
    /\ last' = IF Storage_get_prompt(prompts, prompt_id) = None
               THEN Resp("get_prompt", 404, prompt_id, NoArg, None)
               ELSE Resp("get_prompt", 200, prompt_id, NoArg, Some(prompt_id))
    /\ prompts' = Storage_delete_prompt(prompts, prompt_id)
    /\ UNCHANGED <<collections, versions, counters, clock, threads>>

get_prompt(prompt_id) ==
    /\ last' = IF Storage_get_prompt(prompts, prompt_id) = None
               THEN Resp("get_prompt", 404, prompt_id, NoArg, None)
               ELSE Resp("get_prompt", 200, prompt_id, NoArg, Some(prompt_id))
    /\ UNCHANGED <<store, counters, clock, threads>>

\* Mutant: PUT stamps created_at anew.
PutRecord_Restamped(existing, prompt_data, now) ==
    Prompt(existing.id, prompt_data.title, prompt_data.content,
           prompt_data.description, prompt_data.collection_id, now, now)

\* A PUT that merges: a description left out keeps the stored one.
PutRecord_KeepsDescription(existing, prompt_data, now) ==
    Prompt(existing.id, prompt_data.title, prompt_data.content,
           IF prompt_data.description = None
           THEN existing.description ELSE prompt_data.description,
           prompt_data.collection_id, existing.created_at, now)

\* The record PUT builds (api.py 155-163).
PutRecord(existing, prompt_data, now) ==
    Prompt(existing.id, prompt_data.title, prompt_data.content,
           prompt_data.description, prompt_data.collection_id,
           existing.created_at, now)

\* PUT that stores the new record before it validates the collection.
update_prompt_WritesFirst(prompt_id, prompt_data) ==
    LET existing == Storage_get_prompt(prompts, prompt_id)
    IN IF existing = None
       THEN /\ last' = Resp("update_prompt", 404, prompt_id, NoArg, None)
            /\ UNCHANGED <<store, counters, clock, threads>>
       ELSE /\ prompts' = Storage_update_prompt(prompts, prompt_id,
                               PutRecord(existing[1], prompt_data, clock))
            /\ last' = Resp("update_prompt",
                            IF validate_raises(collections, prompt_data.collection_id)
                            THEN 400 ELSE 200,
                            prompt_id, NoArg, Some(prompt_id))
            /\ UNCHANGED <<collections, versions, counters, clock, threads>>

\* A PUT that validates the collection reference before it looks the prompt up.
update_prompt_ValidatesFirst(prompt_id, prompt_data) ==
    LET existing == Storage_get_prompt(prompts, prompt_id) IN
    IF validate_raises(collections, prompt_data.collection_id)
    THEN /\ last' = Resp("update_prompt", 400, prompt_id, NoArg, None)
         /\ UNCHANGED <<store, counters, clock, threads>>
    ELSE IF existing = None
    THEN /\ last' = Resp("update_prompt", 404, prompt_id, NoArg, None)
         /\ UNCHANGED <<store, counters, clock, threads>>
    ELSE /\ prompts' = Storage_update_prompt(prompts, prompt_id,
                           PutRecord(existing[1], prompt_data, clock))
         /\ last' = Resp("update_prompt", 200, prompt_id, NoArg, Some(prompt_id))
         /\ UNCHANGED <<collections, versions, counters, clock, threads>>

update_prompt(prompt_id, prompt_data) ==
    LET existing == Storage_get_prompt(prompts, prompt_id) IN
    IF existing = None
    THEN /\ last' = Resp("update_prompt", 404, prompt_id, NoArg, None)
         /\ UNCHANGED <<store, counters, clock, threads>>
    ELSE IF validate_raises(collections, prompt_data.collection_id)
    THEN /\ last' = Resp("update_prompt", 400, prompt_id, NoArg, None)
         /\ UNCHANGED <<store, counters, clock, threads>>
    ELSE /\ prompts' = Storage_update_prompt(prompts, prompt_id,
                           PutRecord(existing[1], prompt_data, clock))
         /\ last' = Resp("update_prompt", 200, prompt_id, NoArg, Some(prompt_id))
         /\ UNCHANGED <<collections, versions, counters, clock, threads>>

\* The record PATCH builds: existing.model_dump() overwritten by the fields
\* the request gave, then id, created_at, updated_at (api.py 186-195).
\* A PATCH that leaves updated_at as it was stored.
PatchRecord_Unstamped(existing, prompt_data, now) ==
    Prompt(existing.id, prompt_data.title, prompt_data.content,
           IF "description" \in prompt_data.fields_set
           THEN prompt_data.description ELSE existing.description,
           IF "collection_id" \in prompt_data.fields_set
           THEN prompt_data.collection_id ELSE existing.collection_id,
           existing.created_at, existing.updated_at)

\* A PATCH that replaces the record as PUT does: omitted fields become null.
PatchRecord_Replaces(existing, prompt_data, now) ==
    Prompt(existing.id, prompt_data.title, prompt_data.content,
           prompt_data.description, prompt_data.collection_id,
           existing.created_at, now)

PatchRecord(existing, prompt_data, now) ==
    Prompt(existing.id, prompt_data.title, prompt_data.content,
           IF "description" \in prompt_data.fields_set
           THEN prompt_data.description ELSE existing.description,
           IF "collection_id" \in prompt_data.fields_set
           THEN prompt_data.collection_id ELSE existing.collection_id,
           existing.created_at, now)

partial_update_prompt(prompt_id, prompt_data) ==
    LET existing == Storage_get_prompt(prompts, prompt_id) IN
    IF existing = None
    THEN /\ last' = Resp("partial_update_prompt", 404, prompt_id, NoArg, None)
         /\ UNCHANGED <<store, counters, clock, threads>>
    ELSE IF /\ "collection_id" \in prompt_data.fields_set
            /\ validate_raises(collections, prompt_data.collection_id)
    THEN /\ last' = Resp("partial_update_prompt", 400, prompt_id, NoArg, None)
         /\ UNCHANGED <<store, counters, clock, threads>>
    ELSE /\ prompts' = Storage_update_prompt(prompts, prompt_id,
                           PatchRecord(existing[1], prompt_data, clock))
         /\ last' = Resp("partial_update_prompt", 200, prompt_id, NoArg, Some(prompt_id))
         /\ UNCHANGED <<collections, versions, counters, clock, threads>>

delete_prompt(prompt_id) ==
    /\ prompts' = Storage_delete_prompt(prompts, prompt_id)
    /\ last' = IF Storage_delete_prompt_Returned(prompts, prompt_id)
               THEN Resp("delete_prompt", 204, prompt_id, NoArg, None)
               ELSE Resp("delete_prompt", 404, prompt_id, NoArg, None)
    /\ UNCHANGED <<collections, versions, counters, clock, threads>>

list_collections ==
    /\ LET found == Storage_get_all_collections(collections)
       IN last' = Listing("list_collections", NoArg, found, Len(found))
    /\ UNCHANGED <<store, counters, clock, threads>>

get_collection(collection_id) ==
    /\ last' = IF Storage_get_collection(collections, collection_id) = None
               THEN Resp("get_collection", 404, NoArg, collection_id, None)
               ELSE Resp("get_collection", 200, NoArg, collection_id,
                         Some(collection_id))
    /\ UNCHANGED <<store, counters, clock, threads>>

create_collection(collection_data) ==
    /\ Fresh
    /\ LET collection == Collection(generate_id("c", nCollections + 1),
                                    collection_data.name, collection_data.description)
       IN /\ collections' = Storage_create_collection(collections, collection)
          /\ last' = Resp("create_collection", 201, NoArg, collection.id,
                          Some(collection.id))
    /\ nCollections' = nCollections + 1
    /\ UNCHANGED <<prompts, versions, nPrompts, nVersions, clock, threads>>

\* for prompt in prompts: storage.delete_prompt(prompt.id)   (api.py 279-280)
RECURSIVE DeleteEach(_, _)
DeleteEach(ps, members) ==
    IF members = <<>> THEN ps
    ELSE DeleteEach(Storage_delete_prompt(ps, Head(members).id), Tail(members))

delete_collection(collection_id) ==
    IF ~Storage_delete_collection_Returned(collections, collection_id)
    THEN /\ last' = Resp("delete_collection", 404, NoArg, collection_id, None)
         /\ UNCHANGED <<store, counters, clock, threads>>
    ELSE /\ collections' = Storage_delete_collection(collections, collection_id)
         /\ prompts' = DeleteEach(prompts,
                           Storage_get_prompts_by_collection(prompts, collection_id))
         /\ last' = Resp("delete_collection", 204, NoArg, collection_id, None)
         /\ UNCHANGED <<versions, counters, clock, threads>>

\* Mutant: the owner of the version is not compared.
VersionNotOwned_Unchecked(version, prompt_id) == version = None

\* if not version or version.prompt_id != prompt_id   (api.py 325, 372)
VersionNotOwned(version, prompt_id) ==
    version = None \/ version[1].prompt_id /= prompt_id

\* sorted(..., key=lambda v: v.version_number, reverse=True)
SortedVersions(vs) ==
    sorted(vs, [v \in Range(vs) |-> v.version_number], TRUE)

list_prompt_versions(prompt_id) ==
    /\ IF Storage_get_prompt(prompts, prompt_id) = None
       THEN last' = Resp("list_prompt_versions", 404, prompt_id, NoArg, None)
       ELSE LET found == SortedVersions(Storage_get_versions_by_prompt(versions, prompt_id))
            IN last' = Listing("list_prompt_versions", prompt_id, found, Len(found))
    /\ UNCHANGED <<store, counters, clock, threads>>

get_prompt_version(prompt_id, version_id) ==
    /\ last' = IF VersionNotOwned(Storage_get_version(versions, version_id), prompt_id)
               THEN Resp("get_prompt_version", 404, prompt_id, version_id, None)
               ELSE Resp("get_prompt_version", 200, prompt_id, version_id, Some(version_id))
    /\ UNCHANGED <<store, counters, clock, threads>>

\* The version POST /prompts/{id}/versions builds (api.py 347-352).
NewVersion(id, prompt_id, version_data, latest) ==
    PromptVersion(id, prompt_id, version_data.title, version_data.content,
                  version_data.description, latest + 1)

create_prompt_version(prompt_id, version_data) ==
    IF Storage_get_prompt(prompts, prompt_id) = None
    THEN /\ last' = Resp("create_prompt_version", 404, prompt_id, NoArg, None)
         /\ UNCHANGED <<store, counters, clock, threads>>
    ELSE /\ Fresh
         /\ LET version == NewVersion(generate_id("v", nVersions + 1), prompt_id,
                               version_data,
                               Storage_get_latest_version_number(versions, prompt_id))
            IN /\ versions' = Storage_create_version(versions, version)
               /\ last' = Resp("create_prompt_version", 201, prompt_id, NoArg,
                               Some(version.id))
         /\ nVersions' = nVersions + 1
         /\ UNCHANGED <<prompts, collections, nPrompts, nCollections, clock, threads>>

\* f"Reverted to version {old_version.version_number}"   (api.py 380)
RevertDescription(version_number) ==
    Some("Reverted to version " \o ToString(version_number))

\* Mutant: the description names the new version, not the target.
RevertVersion_NamesNew(id, prompt_id, old_version, latest) ==
    PromptVersion(id, prompt_id, old_version.title, old_version.content,
                  RevertDescription(latest + 1), latest + 1)

\* A revert that stores its copy under the id of the target.
RevertVersion_InPlace(id, prompt_id, old_version, latest) ==
    PromptVersion(old_version.id, prompt_id, old_version.title, old_version.content,
                  RevertDescription(old_version.version_number), latest + 1)

\* The version the revert route builds (api.py 375-382).
RevertVersion(id, prompt_id, old_version, latest) ==
    PromptVersion(id, prompt_id, old_version.title, old_version.content,
                  RevertDescription(old_version.version_number), latest + 1)

revert_to_version(prompt_id, version_id) ==
    LET old_version == Storage_get_version(versions, version_id) IN
    IF VersionNotOwned(old_version, prompt_id)
    THEN /\ last' = Resp("revert_to_version", 404, prompt_id, version_id, None)
         /\ UNCHANGED <<store, counters, clock, threads>>
    ELSE /\ Fresh
         /\ LET new_version == RevertVersion(generate_id("v", nVersions + 1), prompt_id,
                                   old_version[1],
                                   Storage_get_latest_version_number(versions, prompt_id))
            IN /\ versions' = Storage_create_version(versions, new_version)
               /\ last' = Resp("revert_to_version", 201, prompt_id, version_id,
                               Some(new_version.id))
         /\ nVersions' = nVersions + 1
         /\ UNCHANGED <<prompts, collections, nPrompts, nCollections, clock, threads>>

\* clear() as its docstring has it: prompts and collections only.
clear_KeepsVersions ==
    /\ prompts' = <<>>
    /\ collections' = <<>>
    /\ last' = Resp("clear", 0, NoArg, NoArg, None)
    /\ UNCHANGED <<versions, counters, clock, threads>>

\* storage.clear(), called by the test harness between requests; generate_id
\* goes on handing out fresh ids.
clear ==
    /\ prompts' = <<>>
    /\ collections' = <<>>
    /\ versions' = <<>>
    /\ last' = Resp("clear", 0, NoArg, NoArg, None)
    /\ UNCHANGED <<counters, clock, threads>>

\* Time passes between requests: the next get_current_time() reads later.
Tick ==
    /\ clock < MaxClock
    /\ clock' = clock + 1
    /\ UNCHANGED <<store, counters, last, threads>>

(* ------------------- specifications: atomic requests ------------------- *)
\* Two worker threads of the server's thread pool.
Workers == {"t1", "t2"}
IdleThread ==
    [pc |-> "idle", pid |-> NoArg, xid |-> NoArg, body |-> None,
     old_version |-> None, latest |-> 0, status |-> 0, out |-> None,
     op |-> NoArg, record |-> None, members |-> <<>>,
     di_used |-> 0, di_pos |-> 0]
Idle == [w \in Workers |-> IdleThread]

Init ==
    /\ prompts = <<>>
    /\ collections = <<>>
    /\ versions = <<>>
    /\ nPrompts = 0
    /\ nCollections = 0
    /\ nVersions = 0
    /\ clock = 0
    /\ last = Resp("start", 0, NoArg, NoArg, None)
    /\ threads = Idle

\* Spec: prompts and collections with every collection reference; one title,
\* one version body.
OneTitle == {"Alpha"}
NoDescription == {None}
OneVersionBody == {[title |-> "V1", content |-> "C1", description |-> None]}

Next ==
    \/ \E d \in Plain(OneTitle, NoDescription, CollectionRefs) : create_prompt(d)
    \/ \E p \in PromptIdArgs : get_prompt(p)
    \/ \E p \in PromptIdArgs : \E d \in Plain(OneTitle, NoDescription, CollectionRefs) :
          update_prompt(p, d)
    \/ \E p \in PromptIdArgs : \E d \in PromptData(OneTitle, NoDescription, CollectionRefs) :
          partial_update_prompt(p, d)
    \/ \E p \in PromptIdArgs : delete_prompt(p)
    \/ \E d \in CollectionBodies : create_collection(d)
    \/ \E c \in CollectionIdArgs : delete_collection(c)
    \/ \E p \in PromptIdArgs : list_prompt_versions(p)
    \/ \E p \in PromptIdArgs : \E d \in OneVersionBody : create_prompt_version(p, d)
    \/ \E p \in PromptIdArgs : \E v \in VersionIdArgs : revert_to_version(p, v)

Spec == Init /\ [][Next]_vars

\* SpecVersions: the version routes with every version body; one prompt body,
\* with or without a collection.
ExistingRefs == {None} \cup {Some(c) : c \in CollectionIdArgs \ {"nonexistent"}}

NextVersions ==
    \/ \E d \in Plain(OneTitle, NoDescription, ExistingRefs) : create_prompt(d)
    \/ \E p \in PromptIdArgs : \E d \in Plain(OneTitle, NoDescription, ExistingRefs) :
          update_prompt(p, d)
    \/ \E p \in PromptIdArgs : \E d \in PromptData(OneTitle, NoDescription, ExistingRefs) :
          partial_update_prompt(p, d)
    \/ \E p \in PromptIdArgs : delete_prompt(p)
    \/ \E d \in CollectionBodies : create_collection(d)
    \/ \E c \in CollectionIdArgs : delete_collection(c)
    \/ \E p \in PromptIdArgs : list_prompt_versions(p)
    \/ \E p \in PromptIdArgs : \E v \in VersionIdArgs : get_prompt_version(p, v)
    \/ \E p \in PromptIdArgs : \E d \in VersionBodies : create_prompt_version(p, d)
    \/ \E p \in PromptIdArgs : \E v \in VersionIdArgs : revert_to_version(p, v)

SpecVersions == Init /\ [][NextVersions]_vars

\* SpecClock: the prompt routes while time passes.
NextClock ==
    \/ Tick
    \/ \E d \in Plain(OneTitle, NoDescription, {None}) : create_prompt(d)
    \/ \E p \in PromptIdArgs : get_prompt(p)
    \/ \E p \in PromptIdArgs : \E d \in Plain(OneTitle, NoDescription, {None}) :
          update_prompt(p, d)
    \/ \E p \in PromptIdArgs : \E d \in PromptData(OneTitle, NoDescription, {None}) :
          partial_update_prompt(p, d)
    \/ \E p \in PromptIdArgs : delete_prompt(p)

SpecClock == Init /\ [][NextClock]_vars

\* SpecFields: create and PUT with every title and description, with and
\* without a stored collection.
NextFields ==
    \/ \E d \in Plain(Titles, Descriptions, ExistingRefs) : create_prompt(d)
    \/ \E p \in PromptIdArgs : \E d \in Plain(Titles, Descriptions, ExistingRefs) :
          update_prompt(p, d)
    \/ \E d \in CollectionBodies : create_collection(d)

SpecFields == Init /\ [][NextFields]_vars

\* SpecClear: the store is cleared between requests.
NextClear ==
    \/ clear
    \/ \E d \in Plain(OneTitle, NoDescription, ExistingRefs) : create_prompt(d)
    \/ \E p \in PromptIdArgs : get_prompt(p)
    \/ \E p \in PromptIdArgs : delete_prompt(p)
    \/ \E d \in CollectionBodies : create_collection(d)
    \/ \E c \in CollectionIdArgs : delete_collection(c)
    \/ \E p \in PromptIdArgs : list_prompt_versions(p)
    \/ \E p \in PromptIdArgs : \E d \in OneVersionBody : create_prompt_version(p, d)
    \/ \E p \in PromptIdArgs : \E v \in VersionIdArgs : revert_to_version(p, v)

SpecClear == Init /\ [][NextClear]_vars

\* SpecReads: the six read routes against a store that create and delete
\* requests fill and empty.
ReadFilters == {None, Some("")} \cup {Some(c) : c \in CollectionIdArgs}
ReadSearches == {None, Some(<<>>), Some(<<"h">>), Some(<<"z">>)}
\* Bodies whose title is a sequence of characters, as search_prompts reads it.
ReadBodies ==
    {[title |-> <<"H", "i">>, content |-> <<"t", "e", "x", "t">>,
      description |-> None, collection_id |-> c,
      fields_set |-> IF c = None THEN {} ELSE {"collection_id"}] :
        c \in ExistingRefs}
NextReads ==
    \/ \E d \in ReadBodies : create_prompt(d)
    \/ \E p \in PromptIdArgs : delete_prompt(p)
    \/ \E d \in CollectionBodies : create_collection(d)
    \/ \E p \in PromptIdArgs : \E d \in OneVersionBody : create_prompt_version(p, d)
    \/ \E p \in PromptIdArgs : get_prompt(p)
    \/ \E c \in ReadFilters : \E s \in ReadSearches : list_prompts(c, s)
    \/ \E c \in CollectionIdArgs : get_collection(c)
    \/ list_collections
    \/ \E p \in PromptIdArgs : list_prompt_versions(p)
    \/ \E p \in PromptIdArgs : \E v \in VersionIdArgs : get_prompt_version(p, v)

SpecReads == Init /\ [][NextReads]_vars

(* ------------------- specifications: query helpers --------------------- *)
\* The helpers of utils.py are applied to storage.get_all_prompts(), as
\* list_prompts does, of a store that holds up to MaxList prompts with any
\* fields the helper reads.
MaxList == 3

Instants == 0..(MaxClock + 1)
SortFields ==
    [title : {"Alpha"}, description : {None}, collection_id : {None},
     created_at : Instants]
FilterFields ==
    [title : {"Alpha"}, description : {None},
     collection_id : {None, Some(""), Some(generate_id("c", 1))},
     created_at : {0}]
SearchTitles == {<<"H", "i">>, <<"o", "h">>, <<"H", "O">>}
SearchDescriptions == {None, Some(<<>>), Some(<<"h", "I">>)}
SearchQueries == {<<>>, <<"h">>, <<"H", "I">>, <<"O">>, <<"i", "o">>, <<"x">>}
SearchFields ==
    [title : SearchTitles, description : SearchDescriptions,
     collection_id : {None}, created_at : {0}]
FilterArgs == {"", generate_id("c", 1), "nonexistent"}

\* The prompts table that holds one prompt per element of fields, in order.
TableOf(fields) ==
    [i \in DOMAIN fields |->
        [k |-> generate_id("p", i),
         v |-> Prompt(generate_id("p", i), fields[i].title, "body text",
                      fields[i].description, fields[i].collection_id,
                      fields[i].created_at, fields[i].created_at)]]
Tables(F) == {TableOf(fields) : fields \in UNION {[1..n -> F] : n \in 0..MaxList}}

InitWith(F) ==
    /\ prompts \in Tables(F)
    /\ collections = <<>>
    /\ versions = <<>>
    /\ nPrompts = Len(prompts)
    /\ nCollections = 0
    /\ nVersions = 0
    /\ clock = 0
    /\ last = Resp("start", 0, NoArg, NoArg, None)
    /\ threads = Idle

\* One call of a helper; last keeps the argument and the list returned.
Called(fn, arg, result) ==
    /\ last' = [Listing(fn, NoArg, result, Len(result)) EXCEPT !.out = Some(arg)]
    /\ UNCHANGED <<store, counters, clock, threads>>

call_sort_prompts_by_date(descending) ==
    Called("sort_prompts_by_date", descending,
           sort_prompts_by_date(Storage_get_all_prompts(prompts), descending))
call_filter_prompts_by_collection(collection_id) ==
    Called("filter_prompts_by_collection", collection_id,
           filter_prompts_by_collection(Storage_get_all_prompts(prompts), collection_id))
call_search_prompts(query) ==
    Called("search_prompts", query,
           search_prompts(Storage_get_all_prompts(prompts), query))

NextSort == \E descending \in BOOLEAN : call_sort_prompts_by_date(descending)
SpecSort == InitWith(SortFields) /\ [][NextSort]_vars

NextFilter == \E c \in FilterArgs : call_filter_prompts_by_collection(c)
SpecFilter == InitWith(FilterFields) /\ [][NextFilter]_vars

NextSearch == \E q \in SearchQueries : call_search_prompts(q)
SpecSearch == InitWith(SearchFields) /\ [][NextSearch]_vars

\* SpecList: list_prompts with every pair of query parameters on a store of
\* up to MaxList prompts, in and out of the one stored collection.
ListFields ==
    [title : {<<"H", "i">>, <<"o">>}, description : {None},
     collection_id : {None, Some(generate_id("c", 1))},
     created_at : 0..MaxClock]
ListCollectionArgs == {None, Some(""), Some(generate_id("c", 1)), Some("nonexistent")}
ListSearchArgs == {None, Some(<<>>), Some(<<"h">>)}

InitList ==
    /\ prompts \in Tables(ListFields)
    /\ collections = Storage_create_collection(<<>>,
                         Collection(generate_id("c", 1), "Work", None))
    /\ versions = <<>>
    /\ nPrompts = Len(prompts)
    /\ nCollections = 1
    /\ nVersions = 0
    /\ clock = MaxClock
    /\ last = Resp("start", 0, NoArg, NoArg, None)
    /\ threads = Idle

NextList == \E c \in ListCollectionArgs : \E s \in ListSearchArgs : list_prompts(c, s)
SpecList == InitList /\ [][NextList]_vars

(* ----------------- specification: concurrent requests ------------------ *)
\* A handler runs on a worker thread; another thread may run between any two
\* of its calls into the store. Each step below is one such call, together
\* with the local computation up to the next one.
Free(w) == threads[w].pc \in {"idle", "done"}
Creating == {w \in Workers : threads[w].pc \in {"version_latest", "version_store",
                                                 "revert_latest", "revert_store",
                                                 "create_store"}}
\* An id is left for a request that is about to create a record.
FreshFor(w) ==
    nPrompts + nCollections + nVersions + Cardinality(Creating \ {w}) < MaxIds
Done(w, status, out) ==
    threads' = [threads EXCEPT ![w] = [@ EXCEPT !.pc = "done", !.status = status,
                                                !.out = out]]

\* create_prompt with collection_id None: _validate_collection_exists returns
\* without reading the store, so the handler is its one call create_prompt.
t_create_prompt(w, prompt_data) ==
    /\ Free(w) /\ FreshFor(w)
    /\ prompt_data.collection_id = None
    /\ LET prompt == NewPrompt(generate_id("p", nPrompts + 1), prompt_data, clock)
       IN /\ prompts' = Storage_create_prompt(prompts, prompt)
          /\ threads' = [threads EXCEPT ![w] =
                 [IdleThread EXCEPT !.pc = "done", !.pid = prompt.id, !.status = 201,
                                    !.out = Some(prompt.id)]]
    /\ nPrompts' = nPrompts + 1
    /\ UNCHANGED <<collections, versions, nCollections, nVersions, clock, last>>

t_delete_prompt(w, prompt_id) ==
    /\ Free(w)
    /\ prompts' = Storage_delete_prompt(prompts, prompt_id)
    /\ threads' = [threads EXCEPT ![w] =
           [IdleThread EXCEPT !.pc = "done", !.pid = prompt_id,
                              !.status = IF Has(prompts, prompt_id) THEN 204 ELSE 404]]
    /\ UNCHANGED <<collections, versions, counters, clock, last>>

\* create_prompt_version: storage.get_prompt   (api.py 344-345)
t_version_check(w, prompt_id, version_data) ==
    /\ Free(w) /\ FreshFor(w)
    /\ threads' = [threads EXCEPT ![w] =
           IF Storage_get_prompt(prompts, prompt_id) = None
           THEN [IdleThread EXCEPT !.pc = "done", !.pid = prompt_id, !.status = 404]
           ELSE [IdleThread EXCEPT !.pc = "version_latest", !.pid = prompt_id,
                                   !.body = Some(version_data)]]
    /\ UNCHANGED <<store, counters, clock, last>>

\* create_prompt_version: storage.get_latest_version_number   (api.py 347)
t_version_latest(w) ==
    /\ threads[w].pc = "version_latest"
    /\ threads' = [threads EXCEPT ![w] = [@ EXCEPT
           !.pc = "version_store",
           !.latest = Storage_get_latest_version_number(versions, threads[w].pid)]]
    /\ UNCHANGED <<store, counters, clock, last>>

\* create_prompt_version: PromptVersion(...), storage.create_version   (api.py 348-354)
t_version_store(w) ==
    /\ threads[w].pc = "version_store"
    /\ LET version == NewVersion(generate_id("v", nVersions + 1), threads[w].pid,
                          threads[w].body[1], threads[w].latest)
       IN /\ versions' = Storage_create_version(versions, version)
          /\ Done(w, 201, Some(version.id))
    /\ nVersions' = nVersions + 1
    /\ UNCHANGED <<prompts, collections, nPrompts, nCollections, clock, last>>

\* revert_to_version: storage.get_version   (api.py 371-373)
t_revert_check(w, prompt_id, version_id) ==
    /\ Free(w) /\ FreshFor(w)
    /\ LET old_version == Storage_get_version(versions, version_id)
       IN threads' = [threads EXCEPT ![w] =
              IF VersionNotOwned(old_version, prompt_id)
              THEN [IdleThread EXCEPT !.pc = "done", !.pid = prompt_id,
                                      !.xid = version_id, !.status = 404]
              ELSE [IdleThread EXCEPT !.pc = "revert_latest", !.pid = prompt_id,
                                      !.xid = version_id, !.old_version = old_version]]
    /\ UNCHANGED <<store, counters, clock, last>>

\* revert_to_version: storage.get_latest_version_number   (api.py 375)
t_revert_latest(w) ==
    /\ threads[w].pc = "revert_latest"
    /\ threads' = [threads EXCEPT ![w] = [@ EXCEPT
           !.pc = "revert_store",
           !.latest = Storage_get_latest_version_number(versions, threads[w].pid)]]
    /\ UNCHANGED <<store, counters, clock, last>>

\* revert_to_version: PromptVersion(...), storage.create_version   (api.py 376-384)
t_revert_store(w) ==
    /\ threads[w].pc = "revert_store"
    /\ LET new_version == RevertVersion(generate_id("v", nVersions + 1), threads[w].pid,
                              threads[w].old_version[1], threads[w].latest)
       IN /\ versions' = Storage_create_version(versions, new_version)
          /\ Done(w, 201, Some(new_version.id))
    /\ nVersions' = nVersions + 1
    /\ UNCHANGED <<prompts, collections, nPrompts, nCollections, clock, last>>

\* list_prompt_versions: storage.get_prompt   (api.py 298-299)
t_list_check(w, prompt_id) ==
    /\ Free(w)
    /\ IF Storage_get_prompt(prompts, prompt_id) = None
       THEN /\ threads' = [threads EXCEPT ![w] =
                   [IdleThread EXCEPT !.pc = "done", !.pid = prompt_id, !.status = 404]]
            /\ last' = Resp("list_prompt_versions", 404, prompt_id, NoArg, None)
       ELSE /\ threads' = [threads EXCEPT ![w] =
                   [IdleThread EXCEPT !.pc = "list_versions", !.pid = prompt_id]]
            /\ UNCHANGED last
    /\ UNCHANGED <<store, counters, clock>>

\* list_prompt_versions: sorted(storage.get_versions_by_prompt(...))   (api.py 301-307)
t_list_versions(w) ==
    /\ threads[w].pc = "list_versions"
    /\ LET found == SortedVersions(
                        Storage_get_versions_by_prompt(versions, threads[w].pid))
       IN last' = Listing("list_prompt_versions", threads[w].pid, found, Len(found))
    /\ Done(w, 200, None)
    /\ UNCHANGED <<store, counters, clock>>

\* create_collection: its one call storage.create_collection   (api.py 259-260)
t_create_collection(w, collection_data) ==
    /\ Free(w) /\ FreshFor(w)
    /\ LET collection == Collection(generate_id("c", nCollections + 1),
                                    collection_data.name, collection_data.description)
       IN /\ collections' = Storage_create_collection(collections, collection)
          /\ threads' = [threads EXCEPT ![w] =
                 [IdleThread EXCEPT !.pc = "done", !.op = "create_collection",
                                    !.xid = collection.id, !.status = 201,
                                    !.out = Some(collection.id)]]
    /\ nCollections' = nCollections + 1
    /\ UNCHANGED <<prompts, versions, nPrompts, nVersions, clock, last>>

\* create_prompt with a collection_id: _validate_collection_exists reads the
\* collections table   (api.py 130, 50-51)
t_create_validate(w, prompt_data) ==
    /\ Free(w) /\ FreshFor(w)
    /\ Truthy(prompt_data.collection_id)
    /\ threads' = [threads EXCEPT ![w] =
           IF validate_raises(collections, prompt_data.collection_id)
           THEN [IdleThread EXCEPT !.pc = "done", !.op = "create_prompt", !.status = 400]
           ELSE [IdleThread EXCEPT !.pc = "create_store", !.op = "create_prompt",
                                   !.body = Some(prompt_data)]]
    /\ UNCHANGED <<store, counters, clock, last>>

\* create_prompt: Prompt(...), storage.create_prompt   (api.py 131-132)
t_create_store(w) ==
    /\ threads[w].pc = "create_store"
    /\ LET prompt == NewPrompt(generate_id("p", nPrompts + 1), threads[w].body[1], clock)
       IN /\ prompts' = Storage_create_prompt(prompts, prompt)
          /\ threads' = [threads EXCEPT ![w] =
                 [@ EXCEPT !.pc = "done", !.pid = prompt.id, !.status = 201,
                           !.out = Some(prompt.id)]]
    /\ nPrompts' = nPrompts + 1
    /\ UNCHANGED <<collections, versions, nCollections, nVersions, clock, last>>

\* delete_collection: storage.delete_collection   (api.py 273-274)
t_cascade_delete(w, collection_id) ==
    /\ Free(w)
    /\ collections' = Storage_delete_collection(collections, collection_id)
    /\ threads' = [threads EXCEPT ![w] =
           IF Storage_delete_collection_Returned(collections, collection_id)
           THEN [IdleThread EXCEPT !.pc = "cascade_members", !.op = "delete_collection",
                                   !.xid = collection_id]
           ELSE [IdleThread EXCEPT !.pc = "done", !.op = "delete_collection",
                                   !.xid = collection_id, !.status = 404]]
    /\ UNCHANGED <<prompts, versions, counters, clock, last>>

\* delete_collection: storage.get_prompts_by_collection, the member list the
\* sweep will walk   (api.py 277)
t_cascade_members(w) ==
    /\ threads[w].pc = "cascade_members"
    /\ threads' = [threads EXCEPT ![w] = [@ EXCEPT
           !.pc = "cascade_sweep",
           !.members = Storage_get_prompts_by_collection(prompts, threads[w].xid)]]
    /\ UNCHANGED <<store, counters, clock, last>>

\* delete_collection: one storage.delete_prompt of the sweep, or its end
\* (api.py 279-280)
t_cascade_sweep(w) ==
    /\ threads[w].pc = "cascade_sweep"
    /\ IF threads[w].members = <<>>
       THEN /\ Done(w, 204, None)
            /\ UNCHANGED prompts
       ELSE /\ prompts' = Storage_delete_prompt(prompts, Head(threads[w].members).id)
            /\ threads' = [threads EXCEPT ![w] = [@ EXCEPT !.members = Tail(@)]]
    /\ UNCHANGED <<collections, versions, counters, clock, last>>

\* SpecCascade: prompts are created in a collection while it is deleted.
CascadeRefs == {Some(c) : c \in CollectionIdArgs}
NextCascade ==
    \E w \in Workers :
        \/ \E d \in CollectionBodies : t_create_collection(w, d)
        \/ \E d \in Plain(OneTitle, NoDescription, CascadeRefs) : t_create_validate(w, d)
        \/ t_create_store(w)
        \/ \E c \in CollectionIdArgs : t_cascade_delete(w, c)
        \/ t_cascade_members(w)
        \/ t_cascade_sweep(w)

SpecCascade == Init /\ [][NextCascade]_vars

\* SpecPatch: PATCH with each optional field omitted, null or given, while a
\* collection is deleted in the steps of delete_collection, so that a PATCH
\* can meet a prompt whose stored collection_id no longer resolves.
MaxPatched == 2
NullDescription == {None}
Described == {Some("A description")}
PatchBodies == PromptData(OneTitle, NullDescription, ExistingRefs)
NextPatch ==
    \/ /\ nPrompts < MaxPatched
       /\ \E d \in Plain(OneTitle, Described, ExistingRefs) : create_prompt(d)
    \/ /\ nCollections < MaxPatched
       /\ \E d \in CollectionBodies : create_collection(d)
    \/ \E p \in PromptIdArgs : \E d \in PatchBodies : partial_update_prompt(p, d)
    \/ \E c \in CollectionIdArgs : t_cascade_delete("t1", c)
    \/ t_cascade_members("t1")
    \/ t_cascade_sweep("t1")

SpecPatch == Init /\ [][NextPatch]_vars

\* SpecDangling: GET /prompts filtered by every collection id ever issued, by
\* an unknown id and by "", while prompts are created in collections and one
\* delete_collection runs in its storage steps.  get_all_prompts is one
\* list(dict.values()) call, so the listing is computed from one snapshot.
DanglingFilters == {Some(c) : c \in CollectionIdArgs} \cup {Some("")}
NextDangling ==
    \/ \E d \in Plain(OneTitle, NoDescription, ExistingRefs) : create_prompt(d)
    \/ \E d \in CollectionBodies : create_collection(d)
    \/ \E c \in DanglingFilters : list_prompts(c, None)
    \/ \E c \in CollectionIdArgs : t_cascade_delete("t1", c)
    \/ t_cascade_members("t1")
    \/ t_cascade_sweep("t1")

SpecDangling == Init /\ [][NextDangling]_vars

\* SpecFair: requests that create and delete prompts and collections run on
\* the worker threads, interleaved at every point where the store is read
\* and then written or walked, and every started request keeps taking steps.
\*
\* get_prompts_by_collection walks self._prompts.values() in a comprehension
\* (storage.py 145): the dict iterator remembers the size of the dict and
\* raises RuntimeError at its next step when the size has changed.  Prompts
\* are only created and deleted here, so the dict holds them in the order of
\* their numbers and di_pos is the number of the last entry passed.
t_members_iter(w) ==
    /\ threads[w].pc = "cascade_members"
    /\ threads' = [threads EXCEPT ![w] = [@ EXCEPT
           !.pc = "cascade_next", !.di_used = Len(prompts), !.di_pos = 0,
           !.members = <<>>]]
    /\ UNCHANGED <<store, counters, clock, last>>

t_members_next(w) ==
    /\ threads[w].pc = "cascade_next"
    /\ LET ahead == {n \in (threads[w].di_pos + 1)..nPrompts :
                        Has(prompts, generate_id("p", n))}
       IN IF Len(prompts) /= threads[w].di_used
          THEN Done(w, 500, None)
          ELSE IF ahead = {}
          THEN threads' = [threads EXCEPT ![w] = [@ EXCEPT !.pc = "cascade_sweep"]]
          ELSE LET n == CHOOSE i \in ahead : \A j \in ahead : i <= j
                   p == Get(prompts, generate_id("p", n))[1]
               IN threads' = [threads EXCEPT ![w] = [@ EXCEPT
                      !.di_pos = n,
                      !.members = IF p.collection_id = Some(threads[w].xid)
                                  THEN Append(@, p) ELSE @]]
    /\ UNCHANGED <<store, counters, clock, last>>

\* The sweep, one member at a time; storage.delete_prompt tests
\* `prompt_id in self._prompts` and then runs `del self._prompts[prompt_id]`
\* (storage.py 84-87), which raises KeyError when the key has gone meanwhile.
t_sweep_check(w) ==
    /\ threads[w].pc = "cascade_sweep"
    /\ IF threads[w].members = <<>>
       THEN Done(w, 204, None)
       ELSE threads' = [threads EXCEPT ![w] =
                IF Has(prompts, Head(threads[w].members).id)
                THEN [@ EXCEPT !.pc = "sweep_del"]
                ELSE [@ EXCEPT !.members = Tail(@)]]
    /\ UNCHANGED <<store, counters, clock, last>>

t_sweep_del(w) ==
    /\ threads[w].pc = "sweep_del"
    /\ IF Has(prompts, Head(threads[w].members).id)
       THEN /\ prompts' = Storage_delete_prompt(prompts, Head(threads[w].members).id)
            /\ threads' = [threads EXCEPT ![w] =
                   [@ EXCEPT !.pc = "cascade_sweep", !.members = Tail(@)]]
       ELSE /\ Done(w, 500, None)
            /\ UNCHANGED prompts
    /\ UNCHANGED <<collections, versions, counters, clock, last>>

\* DELETE /prompts/{id}: the same test and del of storage.delete_prompt.
t_delete_check(w, prompt_id) ==
    /\ Free(w)
    /\ threads' = [threads EXCEPT ![w] =
           IF Has(prompts, prompt_id)
           THEN [IdleThread EXCEPT !.pc = "delete_del", !.op = "delete_prompt",
                                   !.pid = prompt_id]
           ELSE [IdleThread EXCEPT !.pc = "done", !.op = "delete_prompt",
                                   !.pid = prompt_id, !.status = 404]]
    /\ UNCHANGED <<store, counters, clock, last>>

t_delete_del(w) ==
    /\ threads[w].pc = "delete_del"
    /\ IF Has(prompts, threads[w].pid)
       THEN /\ prompts' = Storage_delete_prompt(prompts, threads[w].pid)
            /\ Done(w, 204, None)
       ELSE /\ Done(w, 500, None)
            /\ UNCHANGED prompts
    /\ UNCHANGED <<collections, versions, counters, clock, last>>

\* A request is started ...
Start(w) ==
    \/ \E d \in CollectionBodies : t_create_collection(w, d)
    \/ \E d \in Plain(OneTitle, NoDescription, CascadeRefs) : t_create_validate(w, d)
    \/ \E p \in PromptIdArgs : t_delete_check(w, p)
    \/ \E c \in CollectionIdArgs : t_cascade_delete(w, c)
\* ... and a started request takes its next step.
Continue(w) ==
    \/ t_create_store(w)
    \/ t_delete_del(w)
    \/ t_members_iter(w)
    \/ t_members_next(w)
    \/ t_sweep_check(w)
    \/ t_sweep_del(w)

NextFair == \E w \in Workers : Start(w) \/ Continue(w)
\* The thread pool runs every thread that has work: weak fairness of each
\* worker's next step.
SpecFair == Init /\ [][NextFair]_vars /\ \A w \in Workers : WF_vars(Continue(w))

\* PUT or PATCH without collection_id: storage.get_prompt, then the record
\* is built   (api.py 149-163, 179-195)
t_update_get(w, op, prompt_id, prompt_data) ==
    /\ Free(w)
    /\ ~Truthy(prompt_data.collection_id)
    /\ LET existing == Storage_get_prompt(prompts, prompt_id)
       IN threads' = [threads EXCEPT ![w] =
              IF existing = None
              THEN [IdleThread EXCEPT !.pc = "done", !.op = op, !.pid = prompt_id,
                                      !.status = 404]
              ELSE [IdleThread EXCEPT
                      !.pc = "update_check", !.op = op, !.pid = prompt_id,
                      !.record = Some(IF op = "update_prompt"
                                      THEN PutRecord(existing[1], prompt_data, clock)
                                      ELSE PatchRecord(existing[1], prompt_data, clock))]]
    /\ UNCHANGED <<store, counters, clock, last>>

\* Storage.update_prompt: `if prompt_id not in self._prompts: return None`;
\* the route then has no Prompt to return and the response fails (500).
\* No lock is held, so another thread may run before the assignment.
t_update_check(w) ==
    /\ threads[w].pc = "update_check"
    /\ threads' = [threads EXCEPT ![w] =
           IF Has(prompts, threads[w].pid)
           THEN [@ EXCEPT !.pc = "update_write"]
           ELSE [@ EXCEPT !.pc = "done", !.status = 500]]
    /\ UNCHANGED <<store, counters, clock, last>>

\* Storage.update_prompt: `self._prompts[prompt_id] = prompt`, a dict
\* assignment, which inserts when the key is not there.
t_update_write(w) ==
    /\ threads[w].pc = "update_write"
    /\ prompts' = Put(prompts, threads[w].pid, threads[w].record[1])
    /\ Done(w, 200, Some(threads[w].pid))
    /\ UNCHANGED <<collections, versions, counters, clock, last>>

\* SpecUpdate: prompts are updated while they are deleted.
UpdateOps == {"update_prompt", "partial_update_prompt"}
NextUpdate ==
    \E w \in Workers :
        \/ \E d \in Plain(OneTitle, NoDescription, {None}) : t_create_prompt(w, d)
        \/ \E p \in PromptIdArgs : t_delete_prompt(w, p)
        \/ \E op \in UpdateOps : \E p \in PromptIdArgs :
              \E d \in Plain(OneTitle, NoDescription, {None}) : t_update_get(w, op, p, d)
        \/ t_update_check(w)
        \/ t_update_write(w)

SpecUpdate == Init /\ [][NextUpdate]_vars

NextConc ==
    \E w \in Workers :
        \/ \E p \in PromptIdArgs : t_list_check(w, p)
        \/ t_list_versions(w)
        \/ \E d \in Plain(OneTitle, NoDescription, {None}) : t_create_prompt(w, d)
        \/ \E p \in PromptIdArgs : t_delete_prompt(w, p)
        \/ \E p \in PromptIdArgs : \E d \in OneVersionBody : t_version_check(w, p, d)
        \/ t_version_latest(w)
        \/ t_version_store(w)
        \/ \E p \in PromptIdArgs : \E v \in VersionIdArgs : t_revert_check(w, p, v)
        \/ t_revert_latest(w)
        \/ t_revert_store(w)

SpecConc == Init /\ [][NextConc]_vars

(* ============================== claims ================================= *)
Stored(d) == Range(Values(d))
VersionsOf(p) == Storage_get_versions_by_prompt(versions, p)
PromptIdsSeen == PromptIdArgs \cup {v.prompt_id : v \in Stored(versions)}

\* C1: with atomic requests, in every reachable state and for every
\* prompt_id, the version_numbers of the stored versions of that prompt are
\* exactly 1..k, k being the number of stored versions of that prompt.
C1_VersionNumbersGapFree ==
    \A p \in PromptIdsSeen :
        {VersionsOf(p)[i].version_number : i \in DOMAIN VersionsOf(p)}
            = 1..Len(VersionsOf(p))

\* A prompt holds three versions, the last stored by a revert.
C1_Witness ==
    /\ last.op = "revert_to_version" /\ last.status = 201
    /\ Len(VersionsOf(last.pid)) = 3

\* C2: under any interleaving of concurrent create_prompt_version and
\* revert_to_version requests, no two stored versions of one prompt share a
\* version_number.
C2_NoSharedVersionNumber ==
    \A i, j \in DOMAIN versions :
        (i /= j /\ versions[i].v.prompt_id = versions[j].v.prompt_id) =>
            versions[i].v.version_number /= versions[j].v.version_number

\* C3: a successful revert_to_version(p, v) on a prompt with n versions
\* appends exactly one version: numbered n+1, title and content those of the
\* target, description "Reverted to version N" with N the target's number;
\* every stored version, the target included, is left as it was.
C3_RevertAppendsCopy ==
    [][\A p \in PromptIdArgs : \A v \in VersionIdArgs :
         (revert_to_version(p, v) /\ last'.status = 201) =>
            LET target == Get(versions, v)[1]
                n == Len(VersionsOf(p))
                id == last'.out[1]
            IN /\ ~Has(versions, id)
               /\ versions' = Append(versions,
                      [k |-> id,
                       v |-> [id |-> id, prompt_id |-> p, title |-> target.title,
                              content |-> target.content,
                              description |->
                                  Some("Reverted to version "
                                       \o ToString(target.version_number)),
                              version_number |-> n + 1]])
               /\ Get(versions', v) = Some(target)]_vars

\* A revert to version 1 of a prompt that already had two versions.
C3_Witness ==
    /\ last.op = "revert_to_version" /\ last.status = 201
    /\ Get(versions, last.xid)[1].version_number = 1
    /\ Get(versions, last.out[1])[1].version_number = 3
    /\ Get(versions, last.out[1])[1].description = Some("Reverted to version 1")

\* C4: get_prompt_version(p, v) and revert_to_version(p, v) answer 404
\* whenever v is absent or the stored version v belongs to another prompt,
\* and then no table changes and no id is consumed.
C4_NotOwnedIs404 ==
    [][\A p \in PromptIdArgs : \A v \in VersionIdArgs :
         ( /\ get_prompt_version(p, v) \/ revert_to_version(p, v)
           /\ \/ ~Has(versions, v)
              \/ Get(versions, v)[1].prompt_id /= p ) =>
            /\ last'.status = 404
            /\ UNCHANGED <<store, counters>>]_vars

\* A revert addressed to an existing prompt with another prompt's version.
C4_Witness ==
    /\ last.op = "revert_to_version" /\ last.status = 404
    /\ Has(prompts, last.pid)
    /\ Has(versions, last.xid)
    /\ Get(versions, last.xid)[1].prompt_id /= last.pid

\* C5: a version is stored only while its prompt exists: every version that
\* a step adds to the versions table has a prompt_id present in the prompts
\* table at that step.
C5_VersionOnlyForStoredPrompt ==
    [][\A i \in DOMAIN versions' :
         versions'[i] \notin Range(versions) =>
            Has(prompts, versions'[i].v.prompt_id)]_vars

\* C6: create_prompt with a collection_id for which no collection exists
\* answers 400 and leaves the three tables unchanged.
C6_CreateWithUnknownCollectionIs400 ==
    [][\A d \in Plain(OneTitle, NoDescription, CollectionRefs) :
         ( /\ create_prompt(d)
           /\ d.collection_id /= None
           /\ ~Has(collections, d.collection_id[1]) ) =>
            /\ last'.status = 400
            /\ UNCHANGED store]_vars

\* C7: whenever create_prompt, PUT or PATCH stores a prompt whose
\* collection_id is not None, a collection with that id is stored.
C7_StoredReferenceResolves ==
    [][\A p \in PromptIdArgs :
       \A d \in PromptData(OneTitle, NoDescription, CollectionRefs) :
         ( /\ create_prompt(d) \/ update_prompt(p, d) \/ partial_update_prompt(p, d)
           /\ last'.status \in {200, 201} ) =>
            LET written == Get(prompts', last'.out[1])[1]
            IN written.collection_id /= None =>
                  Has(collections, written.collection_id[1])]_vars

C9_DeletedStaysAbsent ==
    [][/\ (last'.op = "delete_prompt" /\ last'.status = 204) =>
              ~Has(prompts', last'.pid)
       /\ \A p \in PromptIdArgs :
              /\ (get_prompt(p) /\ ~Has(prompts, p)) => last'.status = 404
              /\ ~Has(prompts, p) => ~Has(prompts', p)]_vars

\* get_prompt of a deleted prompt answers 404 after a later prompt was created.
C9_Witness ==
    /\ last.op = "get_prompt" /\ last.status = 404
    /\ last.pid = generate_id("p", 1)
    /\ Has(prompts, generate_id("p", 2))

\* C10: PUT and PATCH never change a stored prompt's id or created_at, and
\* every record is stored under the key equal to its id.
C10_IdAndCreatedAtImmutable ==
    [][/\ \A e \in Range(prompts') : e.v.id = e.k
       /\ \A e \in Range(prompts) :
              Has(prompts', e.k) =>
                 /\ Get(prompts', e.k)[1].id = e.v.id
                 /\ Get(prompts', e.k)[1].created_at = e.v.created_at]_vars

\* A prompt was updated later than it was created.
C10_Witness ==
    /\ last.op \in {"update_prompt", "partial_update_prompt"} /\ last.status = 200
    /\ Get(prompts, last.pid)[1].updated_at > Get(prompts, last.pid)[1].created_at

\* C11: a PUT, PATCH, delete_prompt, delete_collection, list_prompt_versions,
\* create_prompt_version or revert_to_version request that is answered 404 or
\* 400 leaves the prompts, collections and versions tables exactly as they
\* were; in particular an update addressed to an absent id inserts nothing.
RejectingOps ==
    {"update_prompt", "partial_update_prompt", "delete_prompt", "delete_collection",
     "list_prompt_versions", "create_prompt_version", "revert_to_version"}
C11_RejectedRequestChangesNothing ==
    [][/\ (last'.op \in RejectingOps /\ last'.status \in {400, 404})
            => /\ prompts' = prompts
               /\ collections' = collections
               /\ versions' = versions
       /\ (last'.op \in {"update_prompt", "partial_update_prompt"}
                /\ ~Has(prompts, last'.pid))
            => (last'.status = 404 /\ ~Has(prompts', last'.pid))]_vars
\* A PUT on a stored prompt was refused for its collection reference.
C11_Witness ==
    /\ last.op = "update_prompt"
    /\ last.status = 400
    /\ Has(prompts, last.pid)

\* C12: the version_number given to a new version of prompt p is 1 plus the
\* largest version_number among the stored versions whose prompt_id is p, and
\* 1 when there is none; the versions of other prompts play no part, so
\* storing a version for p leaves the next number of every other prompt as
\* it was.
C12_NextNumberIsOwnMaxPlusOne ==
    [][(last'.op \in {"create_prompt_version", "revert_to_version"}
            /\ last'.status = 201)
        => LET p == last'.pid
               new == Get(versions', last'.out[1])[1]
               own == {v.version_number : v \in {w \in Stored(versions) : w.prompt_id = p}}
           IN /\ new.prompt_id = p
              /\ new.version_number =
                    IF own = {} THEN 1
                    ELSE 1 + (CHOOSE n \in own : \A k \in own : k <= n)
              /\ \A q \in PromptIdsSeen \ {p} :
                    Storage_get_latest_version_number(versions', q)
                        = Storage_get_latest_version_number(versions, q)]_vars
\* A prompt received its first version, numbered 1, while another prompt
\* already held a version.
C12_Witness ==
    /\ last.op = "create_prompt_version"
    /\ last.status = 201
    /\ Get(versions, last.out[1])[1].version_number = 1
    /\ \E v \in Stored(versions) : v.prompt_id /= last.pid

\* C13: list_prompt_versions on a stored prompt p answers 200 with exactly
\* the stored versions of p, each once, in strictly descending version_number,
\* and total is their count.  (Creating V1 and V2 and reverting to V1 lists
\* the numbers 3, 2, 1.)
C13_ListingIsOwnVersionsDescending ==
    [][(last' /= last /\ last'.op = "list_prompt_versions" /\ Has(prompts', last'.pid))
        => LET own == {v \in Stored(versions') : v.prompt_id = last'.pid}
               items == last'.items
           IN /\ last'.status = 200
              /\ Range(items) = own
              /\ Len(items) = Cardinality(own)
              /\ last'.total = Cardinality(own)
              /\ \A i, j \in DOMAIN items :
                    i < j => items[i].version_number > items[j].version_number]_vars

\* C14: the version history only grows: every stored version stays in the
\* versions table with the same fields through every request, among them a
\* revert that targets it, delete_prompt of its prompt and the cascade of
\* delete_collection; a request can only append to the table.
C14_VersionsOnlyAppended ==
    [][/\ Len(versions') >= Len(versions)
       /\ SubSeq(versions', 1, Len(versions)) = versions]_vars
\* A prompt was deleted while the store holds a version of it and the copy a
\* revert made of that version.
C14_Witness ==
    /\ last.op = "delete_prompt"
    /\ last.status = 204
    /\ \E v, w \in Stored(versions) :
          /\ v.prompt_id = last.pid
          /\ w.prompt_id = last.pid
          /\ v.version_number < w.version_number
          /\ w.description = RevertDescription(v.version_number)

\* C15: a PUT answered 200 replaces the whole record: the stored prompt has
\* the title, content, description and collection_id of the request, with
\* description and collection_id null when the request omits them; of the
\* previous record only id and created_at remain (updated_at is the time of
\* the request).
C15_PutReplacesWholeRecord ==
    [][(last'.op = "update_prompt" /\ last'.status = 200)
        => \A d \in Plain(Titles, Descriptions, ExistingRefs) :
              update_prompt(last'.pid, d)
              => LET old == Get(prompts, last'.pid)[1]
                     new == Get(prompts', last'.pid)[1]
                 IN /\ new.title = d.title
                    /\ new.content = d.content
                    /\ new.description
                          = (IF "description" \in d.fields_set THEN d.description ELSE None)
                    /\ new.collection_id
                          = (IF "collection_id" \in d.fields_set THEN d.collection_id ELSE None)
                    /\ new.id = old.id
                    /\ new.created_at = old.created_at
                    /\ new.updated_at = clock
                    /\ DOMAIN new = DOMAIN old]_vars
\* A PUT that gave neither description nor collection_id replaced a record
\* that had both, and changed its title.
C15_Witness ==
    /\ last.op = "update_prompt"
    /\ last.status = 200
    /\ Len(collections) = 1
    /\ Len(prompts) = 1
    /\ Get(prompts, last.pid)[1].title = "Beta"
    /\ Get(prompts, last.pid)[1].description = None
    /\ Get(prompts, last.pid)[1].collection_id = None

\* C16: Storage.delete_prompt(id) and Storage.delete_collection(id) return
\* True exactly when a record with that id is in their table; then they remove
\* that one record and nothing else, so a second delete of the same id
\* returns False; the other tables are not touched.  (The prompts that the
\* delete_collection route removes afterwards are the work of the route.)
C16_DeleteReturnsPresenceAndRemovesOne ==
    [][last'.op \in {"delete_prompt", "delete_collection"} =>
       /\ \A p \in PromptIdArgs :
            LET after == Storage_delete_prompt(prompts, p)
                returned == Storage_delete_prompt_Returned(prompts, p)
            IN /\ returned <=> (\E r \in Stored(prompts) : r.id = p)
               /\ after = SelectSeq(prompts, LAMBDA e : e.v.id /= p)
               /\ returned => Len(after) = Len(prompts) - 1
               /\ ~Storage_delete_prompt_Returned(after, p)
       /\ \A c \in CollectionIdArgs :
            LET after == Storage_delete_collection(collections, c)
                returned == Storage_delete_collection_Returned(collections, c)
            IN /\ returned <=> (\E r \in Stored(collections) : r.id = c)
               /\ after = SelectSeq(collections, LAMBDA e : e.v.id /= c)
               /\ returned => Len(after) = Len(collections) - 1
               /\ ~Storage_delete_collection_Returned(after, c)
       /\ last'.op = "delete_prompt"
            => /\ last'.status = 204 <=> (\E r \in Stored(prompts) : r.id = last'.pid)
               /\ prompts' = SelectSeq(prompts, LAMBDA e : e.v.id /= last'.pid)
               /\ collections' = collections
               /\ versions' = versions
       /\ last'.op = "delete_collection"
            => /\ last'.status = 204 <=> (\E r \in Stored(collections) : r.id = last'.xid)
               /\ collections' = SelectSeq(collections, LAMBDA e : e.v.id /= last'.xid)
               /\ versions' = versions]_vars
\* The same prompt was deleted a second time, among other stored prompts and
\* collections, and the delete returned False.
C16_Witness ==
    /\ last.op = "delete_prompt"
    /\ last.status = 404
    /\ last.pid = generate_id("p", 1)
    /\ Len(prompts) >= 1
    /\ Len(collections) >= 1

\* C17: create_prompt with a null or a stored collection_id, create_collection
\* and the creation of a version always succeed; each appends exactly one
\* record, under a fresh id, to its own table and leaves the records already
\* there and the other two tables as they were; a get with the returned id
\* yields the record that was created.
C17_CreateAddsOneRecord ==
    [][/\ last'.op = "create_prompt" =>
            \A d \in Plain(OneTitle, NoDescription, CollectionRefs) :
            (create_prompt(d)
                /\ (d.collection_id = None \/ Has(collections, d.collection_id[1])))
            => /\ last'.status = 201
               /\ Storage_get_prompt(prompts', last'.out[1])
                     = Some([id |-> last'.out[1], title |-> d.title,
                             content |-> d.content, description |-> d.description,
                             collection_id |-> d.collection_id,
                             created_at |-> clock, updated_at |-> clock])
       /\ (last'.op = "create_prompt" /\ last'.status = 201)
            => /\ ~Has(prompts, last'.out[1])
               /\ Len(prompts') = Len(prompts) + 1
               /\ SubSeq(prompts', 1, Len(prompts)) = prompts
               /\ prompts'[Len(prompts')].k = last'.out[1]
               /\ collections' = collections /\ versions' = versions
       /\ last'.op = "create_collection"
            => /\ last'.status = 201
               /\ ~Has(collections, last'.out[1])
               /\ Len(collections') = Len(collections) + 1
               /\ SubSeq(collections', 1, Len(collections)) = collections
               /\ Storage_get_collection(collections', last'.out[1])
                     = Some(collections'[Len(collections')].v)
               /\ collections'[Len(collections')].v.id = last'.out[1]
               /\ prompts' = prompts /\ versions' = versions
       /\ (last'.op \in {"create_prompt_version", "revert_to_version"}
                /\ last'.status = 201)
            => /\ ~Has(versions, last'.out[1])
               /\ Len(versions') = Len(versions) + 1
               /\ SubSeq(versions', 1, Len(versions)) = versions
               /\ Storage_get_version(versions', last'.out[1])
                     = Some(versions'[Len(versions')].v)
               /\ versions'[Len(versions')].v.id = last'.out[1]
               /\ prompts' = prompts /\ collections' = collections]_vars
\* A prompt was created in a stored collection next to an older prompt, a
\* collection and a version.
C17_Witness ==
    /\ last.op = "create_prompt"
    /\ last.status = 201
    /\ Len(prompts) >= 2
    /\ Len(versions) >= 1
    /\ Truthy(Get(prompts, last.out[1])[1].collection_id)
    /\ Has(collections, Get(prompts, last.out[1])[1].collection_id[1])

\* The place of a prompt in a list whose prompts have distinct ids.
Pos(ps, x) == CHOOSE n \in DOMAIN ps : ps[n] = x
\* r holds each prompt of ps that is in keep, once, in the order of ps.
IsSelection(r, ps, keep) ==
    /\ Range(r) = Range(ps) \cap keep
    /\ Len(r) = Cardinality(Range(r))
    /\ \A i, j \in DOMAIN r : i < j => Pos(ps, r[i]) < Pos(ps, r[j])

\* C18: sort_prompts_by_date returns a permutation of its input ordered by
\* created_at, most recent first when descending is True and oldest first
\* otherwise; in both directions prompts with equal created_at keep the order
\* they had in the input.
C18_SortIsStablePermutation ==
    last.op = "sort_prompts_by_date"
    => LET ps == Storage_get_all_prompts(prompts)
           r == last.items
           descending == last.out[1]
       IN /\ Range(r) = Range(ps)
          /\ Len(r) = Len(ps)
          /\ \A i, j \in DOMAIN r : i < j =>
                /\ descending => r[i].created_at >= r[j].created_at
                /\ ~descending => r[i].created_at <= r[j].created_at
                /\ r[i].created_at = r[j].created_at => Pos(ps, r[i]) < Pos(ps, r[j])
\* A descending sort moved a later prompt in front of two older prompts of
\* equal created_at, which kept their order.
C18_Witness ==
    /\ last.op = "sort_prompts_by_date"
    /\ last.out = Some(TRUE)
    /\ [i \in DOMAIN last.items |-> last.items[i].id]
          = <<generate_id("p", 2), generate_id("p", 1), generate_id("p", 3)>>
    /\ last.items[2].created_at = last.items[3].created_at
    /\ last.items[1].created_at > last.items[2].created_at

\* Two characters are the same letter, whatever their case.
SameLetter(a, b) == a = b \/ \E n \in DOMAIN Upper : {a, b} = {Upper[n], Lower[n]}
\* q occurs in text when case is ignored.
Occurs(q, text) ==
    \E start \in 0..(Len(text) - Len(q)) :
        \A i \in 1..Len(q) : SameLetter(q[i], text[start + i])

\* C19: search_prompts(prompts, q) returns, in input order, exactly the
\* prompts whose title or whose non-null description contains q when case is
\* ignored; a null description never matches; the empty q returns every
\* prompt in the same order.
C19_SearchIsCaseInsensitiveSelection ==
    last.op = "search_prompts"
    => LET ps == Storage_get_all_prompts(prompts)
           q == last.out[1]
           hits == {p \in Range(ps) :
                       \/ Occurs(q, p.title)
                       \/ p.description /= None /\ Occurs(q, p.description[1])}
       IN /\ IsSelection(last.items, ps, hits)
          /\ q = <<>> => last.items = ps
\* A query in capitals found one prompt by its title and one by its
\* description alone, and passed over a prompt without description.
C19_Witness ==
    /\ last.op = "search_prompts"
    /\ last.out = Some(<<"H", "I">>)
    /\ Len(last.items) = 2
    /\ last.items[1].title = <<"H", "i">>
    /\ last.items[2].title = <<"o", "h">>
    /\ last.items[2].description = Some(<<"h", "I">>)
    /\ \E p \in Stored(prompts) : p.description = None /\ p \notin Range(last.items)

\* C20: filter_prompts_by_collection(prompts, c) returns, in input order,
\* exactly the prompts whose collection_id equals c; a prompt whose
\* collection_id is null is never returned.
C20_FilterIsSelectionByCollection ==
    last.op = "filter_prompts_by_collection"
    => LET ps == Storage_get_all_prompts(prompts)
           c == last.out[1]
       IN /\ IsSelection(last.items, ps, {p \in Range(ps) : p.collection_id = <<c>>})
          /\ \A i \in DOMAIN last.items : last.items[i].collection_id /= None
\* The filter kept the two prompts of a collection and dropped the prompt
\* between them that is in no collection.
C20_Witness ==
    /\ last.op = "filter_prompts_by_collection"
    /\ last.out = Some(generate_id("c", 1))
    /\ [i \in DOMAIN last.items |-> last.items[i].id]
          = <<generate_id("p", 1), generate_id("p", 3)>>
    /\ Get(prompts, generate_id("p", 2))[1].collection_id = None

\* C21: list_prompts(collection_id, search) returns exactly the stored
\* prompts that are in the collection, when a non-empty collection_id is
\* given, and that match the search, when a non-empty search is given; they
\* are ordered by created_at descending, with prompts of equal created_at in
\* the order of the store, and total is their number.
C21_ListIsFilterSearchSort ==
    last.op = "list_prompts"
    => LET ps == Storage_get_all_prompts(prompts)
           c == last.out[1][1]
           s == last.out[1][2]
           r == last.items
           keep == {p \in Range(ps) :
                       /\ (c /= None /\ c[1] /= "") => p.collection_id = c
                       /\ (s /= None /\ s[1] /= <<>>) =>
                             \/ Occurs(s[1], p.title)
                             \/ p.description /= None /\ Occurs(s[1], p.description[1])}
       IN /\ Range(r) = keep
          /\ Len(r) = Cardinality(keep)
          /\ last.total = Cardinality(keep)
          /\ last.status = 200
          /\ \A i, j \in DOMAIN r : i < j =>
                \/ r[i].created_at > r[j].created_at
                \/ r[i].created_at = r[j].created_at /\ Pos(ps, r[i]) < Pos(ps, r[j])
\* Both parameters were given; of three prompts stored at non-decreasing
\* times the two of the collection that match are listed, the later first.
C21_Witness ==
    /\ last.op = "list_prompts"
    /\ last.out = Some(<<Some(generate_id("c", 1)), Some(<<"h">>)>>)
    /\ Len(prompts) = 3
    /\ [i \in DOMAIN last.items |-> last.items[i].id]
          = <<generate_id("p", 3), generate_id("p", 1)>>
    /\ last.items[1].created_at > last.items[2].created_at
    /\ prompts[2].v.created_at <= prompts[3].v.created_at

\* A collection reference that is given and names no stored collection.
Unresolved(collection_id) ==
    collection_id /= None /\ ~Has(collections, collection_id[1])

\* C22: the status of a request follows from its outcome: 404 exactly when
\* the addressed prompt, collection or version is absent (or the version is
\* of another prompt); 400 exactly when a prompt create or update on an
\* otherwise valid target gives a collection_id that does not resolve; 201 on
\* every other create, 204 on every other delete, 200 on every other request.
C22_StatusFollowsOutcome ==
    [][LET st == last'.status
           absent == ~Has(prompts, last'.pid)
       IN /\ last'.op = "create_prompt" =>
               \A d \in Plain(OneTitle, NoDescription, CollectionRefs) :
                   create_prompt(d) =>
                       st = (IF Unresolved(d.collection_id) THEN 400 ELSE 201)
          /\ last'.op = "update_prompt" =>
               \A d \in Plain(OneTitle, NoDescription, CollectionRefs) :
                   update_prompt(last'.pid, d) =>
                       st = (IF absent THEN 404
                             ELSE IF Unresolved(d.collection_id) THEN 400 ELSE 200)
          /\ last'.op = "partial_update_prompt" =>
               \A d \in PromptData(OneTitle, NoDescription, CollectionRefs) :
                   partial_update_prompt(last'.pid, d) =>
                       st = (IF absent THEN 404
                             ELSE IF "collection_id" \in d.fields_set
                                     /\ Unresolved(d.collection_id) THEN 400 ELSE 200)
          /\ last'.op = "get_prompt" => st = (IF absent THEN 404 ELSE 200)
          /\ last'.op = "delete_prompt" => st = (IF absent THEN 404 ELSE 204)
          /\ last'.op = "create_collection" => st = 201
          /\ last'.op = "delete_collection" =>
               st = (IF ~Has(collections, last'.xid) THEN 404 ELSE 204)
          /\ last'.op = "list_prompt_versions" => st = (IF absent THEN 404 ELSE 200)
          /\ last'.op = "create_prompt_version" => st = (IF absent THEN 404 ELSE 201)
          /\ last'.op = "revert_to_version" =>
               st = (IF \/ absent
                        \/ ~Has(versions, last'.xid)
                        \/ Get(versions, last'.xid)[1].prompt_id /= last'.pid
                     THEN 404 ELSE 201)]_vars

\* C23: updated_at is the clock reading of the request that created the
\* prompt and, after every successful PUT and PATCH, the clock reading of that
\* request; the clock never going back, every stored prompt has
\* updated_at >= created_at and a successful update never lowers updated_at.
\* (A step that leaves the clock alone is a request: only Tick moves it.)
C23_UpdatedAtFollowsClock ==
    [][/\ (last'.op = "create_prompt" /\ last'.status = 201 /\ clock' = clock)
            => Get(prompts', last'.pid)[1].updated_at = clock
       /\ (last'.op \in {"update_prompt", "partial_update_prompt"}
                /\ last'.status = 200 /\ clock' = clock)
            => /\ Get(prompts', last'.pid)[1].updated_at = clock
               /\ Get(prompts', last'.pid)[1].updated_at
                     >= Get(prompts, last'.pid)[1].updated_at
       /\ \A p \in Stored(prompts') : p.updated_at >= p.created_at]_vars
\* A PATCH served after the clock advanced stamped a prompt created earlier.
C23_Witness ==
    /\ last.op = "partial_update_prompt"
    /\ last.status = 200
    /\ Get(prompts, last.pid)[1].updated_at = clock
    /\ Get(prompts, last.pid)[1].updated_at > Get(prompts, last.pid)[1].created_at

\* C24: clear() empties the prompts, collections and versions tables from
\* any state; afterwards every get returns nothing, every list is empty and
\* the next version number of every prompt_id is 1.
C24_ClearEmptiesStore ==
    [][last'.op = "clear"
        => /\ prompts' = <<>> /\ collections' = <<>> /\ versions' = <<>>
           /\ \A p \in PromptIdsSeen :
                 /\ Storage_get_prompt(prompts', p) = None
                 /\ Storage_get_versions_by_prompt(versions', p) = <<>>
                 /\ Storage_get_latest_version_number(versions', p) + 1 = 1
           /\ \A c \in CollectionIdArgs :
                 /\ Storage_get_collection(collections', c) = None
                 /\ Storage_get_prompts_by_collection(prompts', c) = <<>>
           /\ \A v \in VersionIdArgs : Storage_get_version(versions', v) = None
           /\ Storage_get_all_prompts(prompts') = <<>>]_vars
\* After a clear of a store that had held a prompt and its version, a new
\* prompt received version number 1.
C24_Witness ==
    /\ last.op = "create_prompt_version"
    /\ last.status = 201
    /\ nPrompts = 2 /\ nVersions = 2
    /\ Len(prompts) = 1 /\ Len(collections) = 0 /\ Len(versions) = 1
    /\ versions[1].v.id = generate_id("v", 2)
    /\ versions[1].v.prompt_id = generate_id("p", 2)
    /\ versions[1].v.version_number = 1

\* C25: the cascade of delete_collection is not atomic.  A create_prompt that
\* carries collection_id X can pass its collection check before X is removed
\* and store its prompt after the sweep has read its member list; when both
\* requests have completed, X is gone and the prompt still refers to it.
\* Every reference that dangles arises this way: it names a collection that
\* was stored when the request was validated and has been deleted since,
\* never an id that no collection ever had.
C25_DanglingNamesDeletedCollection ==
    \A p \in Stored(prompts) :
        (p.collection_id /= None /\ ~Has(collections, p.collection_id[1]))
        => p.collection_id[1] \in {generate_id("c", i) : i \in 1..nCollections}
\* Both requests have completed, delete_collection with 204 and create_prompt
\* with 201; the collection is absent and the new prompt refers to it.
C25_Witness ==
    \E w1, w2 \in Workers :
        /\ threads[w1].pc = "done" /\ threads[w1].op = "delete_collection"
        /\ threads[w1].status = 204
        /\ threads[w2].pc = "done" /\ threads[w2].op = "create_prompt"
        /\ threads[w2].status = 201
        /\ ~Has(collections, threads[w1].xid)
        /\ Has(prompts, threads[w2].pid)
        /\ Get(prompts, threads[w2].pid)[1].collection_id = Some(threads[w1].xid)

\* C26: also under concurrency an update replaces the stored prompt only if
\* its id is stored at that moment: in every interleaving of a PUT or PATCH
\* on p with delete_prompt(p) the update never writes a record for p while p
\* is absent, so a prompt that a delete has removed stays absent.
C26_UpdateNeverWritesAbsentPrompt ==
    [][\A p \in PromptIdArgs \cup {generate_id("p", nPrompts + 1)} :
          (Has(prompts', p) /\ ~Has(prompts, p))
          => /\ nPrompts' = nPrompts + 1
             /\ p = generate_id("p", nPrompts')]_vars

\* C27: with requests served one at a time there is no orphan: in every
\* reachable state each stored prompt whose collection_id is not null refers
\* to a collection that is in the collections table.
C27_NoOrphanPrompt ==
    \A p \in Stored(prompts) :
        p.collection_id /= None => Has(collections, p.collection_id[1])

\* C28: the two read paths of versions agree: get_prompt_version(p, v)
\* succeeds exactly when list_prompt_versions(p) succeeds and lists v, also
\* after prompt p has been deleted.
C28_VersionReadPathsAgree ==
    [][last'.op = "get_prompt_version"
        => (last'.status = 200
            <=> /\ Storage_get_prompt(prompts, last'.pid) /= None
                /\ \E x \in Range(SortedVersions(
                              Storage_get_versions_by_prompt(versions, last'.pid))) :
                       x.id = last'.xid)]_vars

\* C29: a PATCH answered 200 writes the title and content of the request,
\* takes description and collection_id from the request when the request
\* carries them (null included) and keeps the stored value when it omits
\* them, keeps id and created_at, stamps updated_at with the clock, and
\* touches no other record; a PATCH of a stored prompt that omits
\* collection_id is never answered 400, whatever the stored reference.
C29_PatchChangesOnlyGivenFields ==
    [][(last'.op = "partial_update_prompt" /\ threads' = threads
                                           /\ Has(prompts, last'.pid)) =>
         \A d \in PatchBodies :
            partial_update_prompt(last'.pid, d) =>
               LET old == Get(prompts, last'.pid)[1]
                   new == Get(prompts', last'.pid)[1]
               IN /\ "collection_id" \notin d.fields_set => last'.status = 200
                  /\ last'.status = 200 =>
                        /\ new.title = d.title
                        /\ new.content = d.content
                        /\ new.description = IF "description" \in d.fields_set
                                             THEN d.description ELSE old.description
                        /\ new.collection_id = IF "collection_id" \in d.fields_set
                                               THEN d.collection_id
                                               ELSE old.collection_id
                        /\ new.id = old.id
                        /\ new.created_at = old.created_at
                        /\ new.updated_at = clock
                        /\ \A q \in PromptIdArgs \ {last'.pid} :
                              Get(prompts', q) = Get(prompts, q)
                        /\ <<collections', versions'>> = <<collections, versions>>]_vars

\* While delete_collection is between its list of members and its sweep, a
\* PATCH giving description as null and omitting collection_id has been
\* answered 200 for a member: the record lost the description the member
\* list still shows and kept the reference to the collection already gone.
C29_Witness ==
    /\ last.op = "partial_update_prompt" /\ last.status = 200
    /\ threads["t1"].pc = "cascade_sweep"
    /\ threads["t1"].members /= <<>>
    /\ Has(prompts, last.pid)
    /\ LET p == Get(prompts, last.pid)[1]
           listed == Head(threads["t1"].members)
       IN /\ listed.id = p.id
          /\ listed.description /= None
          /\ p.description = None
          /\ p.collection_id = Some(threads["t1"].xid)
          /\ ~Has(collections, threads["t1"].xid)

\* C30: PUT and PATCH look the prompt up before the collection reference: a
\* request addressed to an absent prompt is answered 404 whatever
\* collection_id it carries, and 400 is answered only for a stored prompt.
C30_PromptCheckedBeforeCollection ==
    [][last'.op \in {"update_prompt", "partial_update_prompt"} =>
         /\ ~Has(prompts, last'.pid) => last'.status = 404
         /\ last'.status = 400 => Has(prompts, last'.pid)]_vars

\* A PUT or PATCH addressed to a prompt that was stored and then deleted has
\* been answered 404 in a store without collections, where every non-null
\* collection_id of the request fails to resolve.
C30_Witness ==
    /\ last.op \in {"update_prompt", "partial_update_prompt"}
    /\ last.status = 404
    /\ last.pid \in {generate_id("p", i) : i \in 1..nPrompts}
    /\ ~Has(prompts, last.pid)
    /\ collections = <<>>
    /\ nCollections > 0

ReadOps == {"get_prompt", "list_prompts", "get_collection", "list_collections",
            "list_prompt_versions", "get_prompt_version"}
C32_ReadsLeaveStoreUnchanged ==
    [][last'.op \in ReadOps =>
         /\ last'.status \in {200, 404}
         /\ <<prompts', collections', versions'>> = <<prompts, collections, versions>>
         /\ <<nPrompts', nCollections', nVersions'>>
               = <<nPrompts, nCollections, nVersions>>]_vars

\* The versions of a deleted prompt were asked for and the answer was 404:
\* the versions table still holds them, next to a stored prompt and a stored
\* collection.
C32_Witness ==
    /\ last.op = "list_prompt_versions" /\ last.status = 404
    /\ \E v \in Stored(versions) : v.prompt_id = last.pid
    /\ prompts /= <<>>
    /\ collections /= <<>>

\* C33: under fair scheduling every started request eventually completes,
\* and a delete_collection that removed its collection completes its sweep:
\* it ends with 204, also when prompts are created or deleted meanwhile.
InProgress(w) == threads[w].pc \notin {"idle", "done"}
C33_EveryRequestCompletes ==
    \A w \in Workers :
        /\ InProgress(w) ~> threads[w].pc = "done"
        /\ threads[w].pc = "cascade_members"
              ~> (threads[w].pc = "done" /\ threads[w].status = 204)

====
